---- MODULE Spec2Model ----
(***************************************************************************)
(* The PL/0 runtime bridge (runtime.c): the process entry point main, the  *)
(* seven print routines and the read routine that compiled PL/0 code calls *)
(* by symbol name.  Text is a sequence of one-character strings; the zero  *)
(* byte that ends a C string is NUL.                                       *)
(***************************************************************************)
EXTENDS Integers, Sequences, FiniteSets, TLC

VARIABLES
  pc,       \* where control is: "loader", "__pl0_start", "exited"
  started,  \* how many times __pl0_start has been entered
  stdout,   \* every character written to standard output so far
  input,    \* the whole content of standard input
  inpos,    \* standard input's position: index of the next unread character
  mem,      \* the compiled program's data memory, one byte per address
  budget,   \* how many calls the compiled program makes at most
  history   \* the calls made across the linkage boundary, in order

vars == <<pc, started, stdout, input, inpos, mem, budget, history>>

----------------------------------------------------------------------------
(* C types of the ARM target                                               *)

INT_MAX == 2147483647
INT_MIN == -INT_MAX - 1

NUL == "\\0"

\* v converted to the unsigned type of w bits
UnsignedOfWidth(v, w) == v % (2 ^ w)

\* v converted to the signed type of w bits (two's complement wrap)
SignedOfWidth(v, w) ==
  LET m == v % (2 ^ w)
  IN  IF m >= 2 ^ (w - 1) THEN m - 2 ^ w ELSE m

----------------------------------------------------------------------------
(* printf                                                                  *)

DigitChars == <<"0", "1", "2", "3", "4", "5", "6", "7", "8", "9">>

\* the decimal digits of |m| for m <= 0, most significant first; the digits
\* are taken from the non-positive value so that INT_MIN needs no negation
RECURSIVE Magnitude(_)
Magnitude(m) ==
  LET d == (10 - (m % 10)) % 10
      q == (m + d) \div 10
  IN  IF q = 0 THEN <<DigitChars[d + 1]>>
      ELSE Magnitude(q) \o <<DigitChars[d + 1]>>

\* %d of an int
Decimal(n) == IF n < 0 THEN <<"-">> \o Magnitude(n) ELSE Magnitude(-n)

\* faulty variant of CString: the zero byte is skipped, not stopped at
RECURSIVE CString_past_nul(_)
CString_past_nul(bytes) ==
  IF bytes = <<>> THEN <<>>
  ELSE (IF Head(bytes) = NUL THEN <<>> ELSE <<Head(bytes)>>)
         \o CString_past_nul(Tail(bytes))

\* %s: the bytes at the pointer up to, not including, the first zero byte
RECURSIVE CString(_)
CString(bytes) ==
  IF bytes = <<>> \/ Head(bytes) = NUL THEN <<>>
  ELSE <<Head(bytes)>> \o CString(Tail(bytes))

\* one conversion specification applied to the (promoted) argument
Conversion(spec, arg) ==
  CASE spec = "%d"   -> Decimal(arg)
    [] spec = "%hd"  -> Decimal(SignedOfWidth(arg, 16))
    [] spec = "%hhd" -> Decimal(SignedOfWidth(arg, 8))
    [] spec = "%hu"  -> Decimal(UnsignedOfWidth(arg, 16))
    [] spec = "%hhu" -> Decimal(UnsignedOfWidth(arg, 8))
    [] spec = "%s"   -> CString(arg)

ConversionSpecs == {"%d", "%hd", "%hhd", "%hu", "%hhu", "%s"}

\* the text printf(format, arg) writes; a format is a sequence of conversion
\* specifications and ordinary characters
RECURSIVE printf(_, _)
printf(format, arg) ==
  IF format = <<>> THEN <<>>
  ELSE (IF Head(format) \in ConversionSpecs
        THEN Conversion(Head(format), arg)
        ELSE <<Head(format)>>) \o printf(Tail(format), arg)

----------------------------------------------------------------------------
(* scanf("%d", &tmp)                                                       *)

WhiteSpace == {" ", "\n", "\t"}
IsDigit(c) == \E i \in 1..10 : DigitChars[i] = c
DigitVal(c) == (CHOOSE i \in 1..10 : DigitChars[i] = c) - 1

\* first position at or after p that holds no white space
RECURSIVE SkipWhite(_, _)
SkipWhite(s, p) ==
  IF p <= Len(s) /\ s[p] \in WhiteSpace THEN SkipWhite(s, p + 1) ELSE p

\* first position at or after p that holds no digit
RECURSIVE SkipDigits(_, _)
SkipDigits(s, p) ==
  IF p <= Len(s) /\ IsDigit(s[p]) THEN SkipDigits(s, p + 1) ELSE p

\* the value of the digits s[p..q-1], accumulated with the sign applied; the
\* inputs explored are too short for a token to leave the range of int,
\* where the result of %d is undefined
RECURSIVE Accumulate(_, _, _, _, _)
Accumulate(s, p, q, sign, acc) ==
  IF p >= q THEN acc
  ELSE Accumulate(s, p + 1, q, sign, acc * 10 + sign * DigitVal(s[p]))

\* One %d directive on stream s at position p: white space is skipped, an
\* optional sign and the longest run of digits are consumed.  With no digit
\* the directive fails: at end of input nothing but the white space was
\* read, otherwise the sign (if any) stays consumed and the character that
\* did not match is pushed back.
scanf_d(s, p) ==
  LET w == SkipWhite(s, p)
      signed == w <= Len(s) /\ s[w] \in {"+", "-"}
      d == IF signed THEN w + 1 ELSE w
      e == SkipDigits(s, d)
  IN  IF e > d
      THEN [assigned |-> TRUE, pos |-> e,
            value |-> Accumulate(s, d, e, IF signed /\ s[w] = "-" THEN -1 ELSE 1, 0)]
      ELSE [assigned |-> FALSE, pos |-> d, value |-> 0]

----------------------------------------------------------------------------
(* The linkage boundary                                                    *)

\* one completed call: the routine, the argument words the compiled code
\* passed, the text the call wrote and the values it returned (none or one)
Entry(op, param, newline, text, result) ==
  [op |-> op, param |-> param, newline |-> newline,
   text |-> text, result |-> result]

\* faulty variant of Write: a blank is put between two texts on one line
Write_separated(op, param, newline, text) ==
  /\ stdout' = (IF stdout # <<>> /\ stdout[Len(stdout)] # "\n"
                THEN stdout \o <<" ">> ELSE stdout) \o text
  /\ history' = Append(history, Entry(op, param, newline, text, <<>>))
  /\ UNCHANGED <<pc, started, input, inpos, mem, budget>>

\* a print routine's whole effect: text goes to the end of standard output
Write(op, param, newline, text) ==
  /\ stdout' = stdout \o text
  /\ history' = Append(history, Entry(op, param, newline, text, <<>>))
  /\ UNCHANGED <<pc, started, input, inpos, mem, budget>>

\* The values a callee may see in a parameter narrower than the 32-bit
\* argument word: the word as passed (the callee trusts the caller to have
\* extended it) or the word narrowed to the parameter's type.  Plain char
\* is unsigned on ARM and signed elsewhere.
ReceivedShort(word) == {word, SignedOfWidth(word, 16)}
ReceivedChar(word) ==
  {word, UnsignedOfWidth(word, 8), SignedOfWidth(word, 8)}
ReceivedUnsignedShort(word) == {word, UnsignedOfWidth(word, 16)}
ReceivedUnsignedChar(word) == {word, UnsignedOfWidth(word, 8)}

\* the bytes a pointer held in an int refers to: memory from that address on
Deref(address) == SubSeq(mem, address, Len(mem))

----------------------------------------------------------------------------
(* The print routines: the text each one hands to standard output          *)

\* faulty variant of print_integer: the length modifier of a short
print_integer_as_short(param, newline) ==
  IF newline # 0 THEN printf(<<"%hd", "\n">>, param)
  ELSE printf(<<"%hd">>, param)

print_integer(param, newline) ==
  IF newline # 0 THEN printf(<<"%d", "\n">>, param)
  ELSE printf(<<"%d">>, param)

\* faulty variant of print_short: no length modifier
print_short_as_int(param, newline) ==
  IF newline # 0 THEN printf(<<"%d", "\n">>, param)
  ELSE printf(<<"%d">>, param)

print_short(param, newline) ==
  IF newline # 0 THEN printf(<<"%hd", "\n">>, param)
  ELSE printf(<<"%hd">>, param)

print_byte(param, newline) ==
  IF newline # 0 THEN printf(<<"%hhd", "\n">>, param)
  ELSE printf(<<"%hhd">>, param)

print_unsigned_short(param, newline) ==
  IF newline # 0 THEN printf(<<"%hu", "\n">>, param)
  ELSE printf(<<"%hu">>, param)

\* faulty variant of print_unsigned_byte: only the flag value 1 is true
print_unsigned_byte_flag_one(param, newline) ==
  IF newline = 1 THEN printf(<<"%hhu", "\n">>, param)
  ELSE printf(<<"%hhu">>, param)

print_unsigned_byte(param, newline) ==
  IF newline # 0 THEN printf(<<"%hhu", "\n">>, param)
  ELSE printf(<<"%hhu">>, param)

print_string(param, newline) ==
  IF newline # 0 THEN printf(<<"%s", "\n">>, Deref(param))
  ELSE printf(<<"%s">>, Deref(param))

\* faulty variant of print_boolean: only the value 1 is true
print_boolean_one(param, newline) ==
  IF param = 1
  THEN (IF newline # 0 THEN printf(<<"%s", "\n">>, <<"T", "r", "u", "e", NUL>>)
        ELSE printf(<<"%s">>, <<"T", "r", "u", "e", NUL>>))
  ELSE (IF newline # 0
        THEN printf(<<"%s", "\n">>, <<"F", "a", "l", "s", "e", NUL>>)
        ELSE printf(<<"%s">>, <<"F", "a", "l", "s", "e", NUL>>))

print_boolean(param, newline) ==
  IF param # 0
  THEN (IF newline # 0 THEN printf(<<"%s", "\n">>, <<"T", "r", "u", "e", NUL>>)
        ELSE printf(<<"%s">>, <<"T", "r", "u", "e", NUL>>))
  ELSE (IF newline # 0
        THEN printf(<<"%s", "\n">>, <<"F", "a", "l", "s", "e", NUL>>)
        ELSE printf(<<"%s">>, <<"F", "a", "l", "s", "e", NUL>>))

----------------------------------------------------------------------------
(* The entry points, as the compiled program calls them                    *)

\* control is in the compiled program, which has a call left to make
Calling == pc = "__pl0_start" /\ Len(history) < budget

__pl0_print_integer(param, newline) ==
  /\ Calling
  /\ Write("__pl0_print_integer", param, newline,
           print_integer(param, newline))

__pl0_print_short(param, newline) ==
  /\ Calling
  /\ \E v \in ReceivedShort(param) :
       Write("__pl0_print_short", param, newline, print_short(v, newline))

__pl0_print_byte(param, newline) ==
  /\ Calling
  /\ \E v \in ReceivedChar(param) :
       Write("__pl0_print_byte", param, newline, print_byte(v, newline))

__pl0_print_unsigned_short(param, newline) ==
  /\ Calling
  /\ \E v \in ReceivedUnsignedShort(param) :
       Write("__pl0_print_unsigned_short", param, newline,
             print_unsigned_short(v, newline))

__pl0_print_unsigned_byte(param, newline) ==
  /\ Calling
  /\ \E v \in ReceivedUnsignedChar(param) :
       Write("__pl0_print_unsigned_byte", param, newline,
             print_unsigned_byte(v, newline))

__pl0_print_string(param, newline) ==
  /\ Calling
  /\ Write("__pl0_print_string", param, newline,
           print_string(param, newline))

__pl0_print_boolean(param, newline) ==
  /\ Calling
  /\ Write("__pl0_print_boolean", param, newline,
           print_boolean(param, newline))

\* what the local tmp may hold when scanf assigned nothing to it
Indeterminate == {-1, 0}

\* faulty variant of ReadResult: a failed scan never returns to the caller
ReadResult_or_stop(r) == IF r.assigned THEN {r.value} ELSE {}

\* the value __pl0_read returns after scanf reported r
ReadResult(r) == IF r.assigned THEN {r.value} ELSE Indeterminate

\* faulty variant of __pl0_read: a prompt is written before the scan
__pl0_read_prompting ==
  /\ Calling
  /\ LET r == scanf_d(input, inpos)
     IN  /\ inpos' = r.pos
         /\ \E tmp \in ReadResult(r) :
              history' = Append(history, Entry("__pl0_read", 0, 0, <<>>, <<tmp>>))
  /\ stdout' = stdout \o <<"?", " ">>
  /\ UNCHANGED <<pc, started, input, mem, budget>>

\* faulty variant of __pl0_read: after a failed scan the character that did
\* not match is discarded
__pl0_read_skipping ==
  /\ Calling
  /\ LET r == scanf_d(input, inpos)
     IN  /\ inpos' = (IF r.assigned \/ r.pos > Len(input) THEN r.pos
                      ELSE r.pos + 1)
         /\ \E tmp \in ReadResult(r) :
              history' = Append(history, Entry("__pl0_read", 0, 0, <<>>, <<tmp>>))
  /\ UNCHANGED <<pc, started, stdout, input, mem, budget>>

__pl0_read ==
  /\ Calling
  /\ LET r == scanf_d(input, inpos)
     IN  /\ inpos' = r.pos
         /\ \E tmp \in ReadResult(r) :
              history' = Append(history, Entry("__pl0_read", 0, 0, <<>>, <<tmp>>))
  /\ UNCHANGED <<pc, started, stdout, input, mem, budget>>

\* faulty variant of main: a banner is printed before the program starts
main_greeting ==
  /\ pc = "loader"
  /\ pc' = "__pl0_start"
  /\ started' = started + 1
  /\ stdout' = stdout \o <<"P", "L", "0", "\n">>
  /\ UNCHANGED <<input, inpos, mem, budget, history>>

\* main up to and including its call of the compiled program
main ==
  /\ pc = "loader"
  /\ pc' = "__pl0_start"
  /\ started' = started + 1
  /\ UNCHANGED <<stdout, input, inpos, mem, budget, history>>

\* the compiled program returns, main falls off its end, the process exits
main_return ==
  /\ pc = "__pl0_start"
  /\ pc' = "exited"
  /\ UNCHANGED <<started, stdout, input, inpos, mem, budget, history>>

----------------------------------------------------------------------------
(* Bounds and the inputs drawn from them                                   *)

MaxCalls == 3   \* calls a compiled program makes in Spec
MaxReads == 3   \* reads a compiled program makes in SpecInput
MaxIn == 5      \* longest standard input in SpecInput
MemSize == 4    \* bytes of data memory in SpecValues
MaxDelta == 3   \* how far around each edge value the argument words reach

\* every sequence over alphabet of length at most n
SeqsUpTo(alphabet, n) == UNION {[1..k -> alphabet] : k \in 0..n}

\* argument words: around zero, around the edges of the 8-, 16- and 32-bit
\* types and around the places where the number of decimal digits changes
Edges == {0, 7, 42, 2^7, 2^8, 2^15, 2^16, 2^24,
          10, 100, 1000, 100000, 1000000000}
Words ==
  {e + d : e \in Edges, d \in -MaxDelta..MaxDelta}
    \cup {-e + d : e \in Edges, d \in -MaxDelta..MaxDelta}
    \cup {INT_MAX - d : d \in 0..MaxDelta}
    \cup {INT_MIN + d : d \in 0..MaxDelta}

Flags == {0, 1, 2, -1}

\* data memories: any bytes, the last one zero, so that every address refers
\* to a null-terminated sequence
Memories == {m \in [1..MemSize -> {"H", "\n", NUL}] : m[MemSize] = NUL}

InAlphabet == {"4", "2", "-", "+", " ", "x"}
Inputs == SeqsUpTo(InAlphabet, MaxIn) \cup {<<"4", "2", "\n">>}

\* the state the loader hands to main
InitWith(inputs, memories, calls) ==
  /\ pc = "loader"
  /\ started = 0
  /\ stdout = <<>>
  /\ input \in inputs
  /\ inpos = 1
  /\ mem \in memories
  /\ budget = calls
  /\ history = <<>>

----------------------------------------------------------------------------
(* Spec: programs of up to MaxCalls calls, over a few argument values      *)

SomeWords == {-7, 3}
SomeFlags == {0, 1}

Init ==
  InitWith({<<"4", "2", "\n">>, <<"-", "7", " ", "x", "3">>},
           {<<"H", "i", NUL, "!", NUL>>}, MaxCalls)

Next ==
  \/ main
  \/ \E param \in SomeWords, newline \in SomeFlags :
       __pl0_print_integer(param, newline)
  \/ \E param \in SomeWords, newline \in SomeFlags :
       __pl0_print_short(param, newline)
  \/ \E param \in SomeWords, newline \in SomeFlags :
       __pl0_print_byte(param, newline)
  \/ \E param \in SomeWords, newline \in SomeFlags :
       __pl0_print_unsigned_short(param, newline)
  \/ \E param \in SomeWords, newline \in SomeFlags :
       __pl0_print_unsigned_byte(param, newline)
  \/ \E param \in {1, 3}, newline \in SomeFlags :
       __pl0_print_string(param, newline)
  \/ \E param \in {0, 1}, newline \in SomeFlags :
       __pl0_print_boolean(param, newline)
  \/ __pl0_read
  \/ main_return

Spec == Init /\ [][Next]_vars

(* SpecValues: one call with its arguments drawn from the wide sets, made   *)
(* first or after one earlier call                                         *)

\* the calls after which SpecValues explores a second one
IsEarlier(h) ==
  \/ h.op = "__pl0_read"
  \/ h.op = "__pl0_print_integer" /\ h.param = -7 /\ h.newline = 0

\* the guard of a call, ahead of the quantifiers so that arguments are drawn
\* only where a call can be made
CallingValues ==
  Calling /\ (IF history = <<>> THEN TRUE ELSE IsEarlier(history[1]))

InitValues == InitWith({<<"4", "2", "\n">>}, Memories, 2)

NextValues ==
  \/ main
  \/ CallingValues /\ \E param \in Words, newline \in Flags :
       __pl0_print_integer(param, newline)
  \/ CallingValues /\ \E param \in Words, newline \in Flags :
       __pl0_print_short(param, newline)
  \/ CallingValues /\ \E param \in Words, newline \in Flags :
       __pl0_print_byte(param, newline)
  \/ CallingValues /\ \E param \in Words, newline \in Flags :
       __pl0_print_unsigned_short(param, newline)
  \/ CallingValues /\ \E param \in Words, newline \in Flags :
       __pl0_print_unsigned_byte(param, newline)
  \/ CallingValues /\ \E param \in 1..MemSize, newline \in Flags :
       __pl0_print_string(param, newline)
  \/ CallingValues /\ \E param \in Words, newline \in Flags :
       __pl0_print_boolean(param, newline)
  \/ CallingValues /\ __pl0_read
  \/ main_return

SpecValues == InitValues /\ [][NextValues]_vars

(* SpecInput: programs that read up to MaxReads times, over every short    *)
(* standard input                                                          *)

InitInput == InitWith(Inputs, {<<NUL>>}, MaxReads)

NextInput == main \/ __pl0_read \/ main_return

SpecInput == InitInput /\ [][NextInput]_vars

----------------------------------------------------------------------------
(* Vocabulary of the properties                                            *)

Last(s) == s[Len(s)]
Front(s) == SubSeq(s, 1, Len(s) - 1)

PrintOps ==
  {"__pl0_print_integer", "__pl0_print_short", "__pl0_print_byte",
   "__pl0_print_unsigned_short", "__pl0_print_unsigned_byte",
   "__pl0_print_string", "__pl0_print_boolean"}

NarrowOps ==
  {"__pl0_print_short", "__pl0_print_byte",
   "__pl0_print_unsigned_short", "__pl0_print_unsigned_byte"}

\* the line break a flag asks for
Terminator(newline) == IF newline # 0 THEN <<"\n">> ELSE <<>>

\* the number a run of digits denotes, taken with the given sign
RECURSIVE NumberOf(_, _)
NumberOf(digits, sign) ==
  IF digits = <<>> THEN 0
  ELSE NumberOf(Front(digits), sign) * 10 + sign * DigitVal(Last(digits))

IsNegative(text) == text # <<>> /\ text[1] = "-"
DigitsOf(text) == IF IsNegative(text) THEN Tail(text) ELSE text

\* text is a base-10 numeral in its one canonical form: an optional "-",
\* then digits, no leading zero, no "-0"
IsCanonical(text) ==
  LET digits == DigitsOf(text)
  IN  /\ digits # <<>>
      /\ Len(digits) <= 10
      /\ \A i \in 1..Len(digits) : IsDigit(digits[i])
      /\ Len(digits) > 1 => digits[1] # "0"
      /\ IsNegative(text) => digits # <<"0">>

TextValue(text) ==
  NumberOf(DigitsOf(text), IF IsNegative(text) THEN -1 ELSE 1)

\* text is exactly the base-10 text of n
IsDecimalOf(text, n) == IsCanonical(text) /\ TextValue(text) = n

\* the bytes from address up to the first zero byte, by position
StringAt(address) ==
  LET k == CHOOSE k \in address..Len(mem) :
             mem[k] = NUL /\ \A j \in address..(k - 1) : mem[j] # NUL
  IN  [i \in 1..(k - address) |-> mem[address + i - 1]]

\* the text a routine writes for given argument words when called alone
RoutineText(op, param, newline) ==
  CASE op = "__pl0_print_integer" -> print_integer(param, newline)
    [] op = "__pl0_print_short" -> print_short(param, newline)
    [] op = "__pl0_print_byte" -> print_byte(param, newline)
    [] op = "__pl0_print_unsigned_short" -> print_unsigned_short(param, newline)
    [] op = "__pl0_print_unsigned_byte" -> print_unsigned_byte(param, newline)
    [] op = "__pl0_print_string" -> print_string(param, newline)
    [] op = "__pl0_print_boolean" -> print_boolean(param, newline)
    [] op = "__pl0_read" -> <<>>

\* the texts the calls of h wrote, one after the other
RECURSIVE Written(_)
Written(h) == IF h = <<>> THEN <<>> ELSE Written(Front(h)) \o Last(h).text

\* the texts the calls of h write when each is made alone, one after the other
RECURSIVE Alone(_)
Alone(h) ==
  IF h = <<>> THEN <<>>
  ELSE Alone(Front(h)) \o RoutineText(Last(h).op, Last(h).param, Last(h).newline)

\* an entry's text without the line break its flag asked for
Body(h) == IF h.newline # 0 THEN Front(h.text) ELSE h.text

----------------------------------------------------------------------------
(* C1: __pl0_print_integer(n, line-terminate = true) appends to standard   *)
(* output exactly the base-10 text of n (a leading "-" when n is negative, *)
(* no leading zeros, no padding) and then exactly one line break.          *)

C1_PrintIntegerDecimal ==
  /\ stdout = Written(history)
  /\ \A i \in 1..Len(history) :
       LET h == history[i]
       IN  (h.op = "__pl0_print_integer" /\ h.newline # 0) =>
             /\ Len(h.text) >= 2
             /\ Last(h.text) = "\n"
             /\ IsDecimalOf(Front(h.text), h.param)

\* INT_MIN printed after an earlier call
C1_Witness ==
  /\ Len(history) = 2
  /\ history[2].op = "__pl0_print_integer"
  /\ history[2].param = INT_MIN
  /\ history[2].newline = 1
  /\ history[2].text =
       <<"-", "2", "1", "4", "7", "4", "8", "3", "6", "4", "8", "\n">>
  /\ stdout = history[1].text \o history[2].text

----------------------------------------------------------------------------
(* C2: for each of the seven print routines and every value, the text      *)
(* written with the line-termination flag true is the text written with    *)
(* the flag false followed by exactly one line break; with the flag false  *)
(* no terminator is appended; any nonzero flag is true, only zero is false.*)

C2_FlagAddsOneLineBreak ==
  \A i \in 1..Len(history) :
    LET h == history[i]
        bare == RoutineText(h.op, h.param, 0)
    IN  h.op \in PrintOps =>
          /\ h.text = bare \o Terminator(h.newline)
          /\ IF h.op = "__pl0_print_string" THEN bare = StringAt(h.param)
             ELSE \A k \in 1..Len(bare) : bare[k] # "\n"

\* a flag other than 0 and 1, on the narrowest routine
C2_Witness ==
  /\ history # <<>>
  /\ Last(history).op = "__pl0_print_unsigned_byte"
  /\ Last(history).param = 255
  /\ Last(history).newline = 2
  /\ Last(history).text = <<"2", "5", "5", "\n">>

----------------------------------------------------------------------------
(* C4: __pl0_print_boolean writes exactly "True" for every nonzero value   *)
(* (negative values and values other than 1 included) and exactly "False"  *)
(* for zero, with nothing but the optional line break after it.            *)

C4_BooleanText ==
  \A i \in 1..Len(history) :
    LET h == history[i]
    IN  h.op = "__pl0_print_boolean" =>
          h.text = (IF h.param # 0 THEN <<"T", "r", "u", "e">>
                    ELSE <<"F", "a", "l", "s", "e">>) \o Terminator(h.newline)

\* a negative truth value
C4_Witness ==
  /\ history # <<>>
  /\ Last(history).op = "__pl0_print_boolean"
  /\ Last(history).param < 0
  /\ Last(history).newline = 0
  /\ Last(history).text = <<"T", "r", "u", "e">>

----------------------------------------------------------------------------
(* Width, signedness and range of the narrower routines                    *)

WidthOf(op) ==
  IF op \in {"__pl0_print_short", "__pl0_print_unsigned_short"} THEN 16 ELSE 8

IsSignedOp(op) == op \in {"__pl0_print_short", "__pl0_print_byte"}

LeastOf(op) == IF IsSignedOp(op) THEN -(2 ^ (WidthOf(op) - 1)) ELSE 0
MostOf(op) ==
  IF IsSignedOp(op) THEN 2 ^ (WidthOf(op) - 1) - 1 ELSE 2 ^ WidthOf(op) - 1

(* C5: each narrower routine prints its argument within its own width and  *)
(* signedness: short in -32768..32767, byte in -128..127, unsigned short   *)
(* in 0..65535, unsigned byte in 0..255; an argument word with bits above  *)
(* the width prints as the word modulo 2^width (re-read as signed for the  *)
(* signed routines), whatever call came before.                            *)

C5_NarrowWithinWidth ==
  /\ stdout = Written(history)
  /\ \A i \in 1..Len(history) :
       LET h == history[i]
       IN  h.op \in NarrowOps =>
             /\ h.text = Body(h) \o Terminator(h.newline)
             /\ IsCanonical(Body(h))
             /\ TextValue(Body(h)) \in LeastOf(h.op)..MostOf(h.op)
             /\ TextValue(Body(h)) % (2 ^ WidthOf(h.op))
                  = h.param % (2 ^ WidthOf(h.op))

\* the word 0x8000 handed to the signed 16-bit routine after another call
C5_Witness ==
  /\ Len(history) = 2
  /\ history[2].op = "__pl0_print_short"
  /\ history[2].param = 32768
  /\ history[2].text = <<"-", "3", "2", "7", "6", "8">>

----------------------------------------------------------------------------
(* C6: __pl0_print_string writes exactly the bytes that precede the first  *)
(* zero byte at the reference, in order, never the terminator and never a  *)
(* byte after it; an empty sequence writes only the optional line break.   *)

C6_StringVerbatim ==
  \A i \in 1..Len(history) :
    LET h == history[i]
    IN  h.op = "__pl0_print_string" =>
          /\ h.text = StringAt(h.param) \o Terminator(h.newline)
          /\ \A k \in 1..Len(StringAt(h.param)) : StringAt(h.param)[k] # NUL
          /\ mem[h.param] = NUL => h.text = Terminator(h.newline)

\* a string with a byte behind its terminator
C6_Witness ==
  /\ history # <<>>
  /\ Last(history).op = "__pl0_print_string"
  /\ Last(history).param = 1
  /\ Last(history).newline = 0
  /\ mem = <<"H", NUL, "H", NUL>>
  /\ Last(history).text = <<"H">>

----------------------------------------------------------------------------
(* The end-to-end program of the specification                            *)

\* the routines and argument words of the calls made so far
CallsMade ==
  [i \in 1..Len(history) |->
     <<history[i].op, history[i].param, history[i].newline>>]

EndToEndCalls ==
  <<<<"__pl0_print_integer", -7, 1>>,
    <<"__pl0_print_boolean", 1, 0>>,
    <<"__pl0_print_integer", 3, 1>>>>

EndToEndOutput == <<"-", "7", "\n", "T", "r", "u", "e", "3", "\n">>

(* C3: after any sequence of print calls standard output is exactly the    *)
(* concatenation, in call order, of the text each call produces alone; no  *)
(* separator is put between two prints on one line.  In particular         *)
(* print-signed-32(-7, true), print-boolean(true, false),                  *)
(* print-signed-32(3, true) yields "-7\nTrue3\n".                          *)

C3_OutputIsConcatenation ==
  /\ stdout = Alone(history)
  /\ CallsMade = EndToEndCalls => stdout = EndToEndOutput

C3_Witness == CallsMade = EndToEndCalls /\ stdout = EndToEndOutput

----------------------------------------------------------------------------
(* C8: main enters __pl0_start exactly once, as its first and only action; *)
(* no print or read routine runs before __pl0_start has been entered, the  *)
(* bridge itself calls none, and once __pl0_start has returned the process *)
(* is over: no bridge code runs any more.                                  *)

C8_StartOnceThenExit ==
  /\ started \in {0, 1}
  /\ pc = "loader" =>
       /\ started = 0
       /\ history = <<>> /\ stdout = <<>> /\ inpos = 1
       /\ ENABLED main
       /\ ~ENABLED (Next /\ ~main)
  /\ pc # "loader" => started = 1
  /\ (pc = "__pl0_start" /\ history = <<>>) => (stdout = <<>> /\ inpos = 1)
  /\ pc = "exited" => ~ENABLED Next

\* the program made its calls and returned
C8_Witness ==
  /\ pc = "exited"
  /\ started = 1
  /\ Len(history) = MaxCalls
  /\ stdout # <<>>
  /\ inpos > 1

----------------------------------------------------------------------------
(* C9: each routine touches only its own stream.  A print only appends to  *)
(* standard output, leaves the position of standard input alone and        *)
(* returns nothing; a read only consumes standard input, leaves standard   *)
(* output alone and returns exactly one value.  What a print writes is the *)
(* same whatever calls came before, reads included.                        *)

C9_EachCallOwnStream ==
  [][Len(history') = Len(history) + 1 =>
       LET h == history'[Len(history')]
       IN  /\ SubSeq(history', 1, Len(history)) = history
           /\ input' = input
           /\ mem' = mem
           /\ IF h.op = "__pl0_read"
              THEN /\ stdout' = stdout
                   /\ inpos' >= inpos
                   /\ Len(h.result) = 1
              ELSE /\ inpos' = inpos
                   /\ stdout' = stdout \o RoutineText(h.op, h.param, h.newline)
                   /\ h.result = <<>>]_vars

\* a read between two prints
C9_Witness ==
  /\ Len(history) = 3
  /\ history[1].op = "__pl0_print_unsigned_short"
  /\ history[1].param = -7
  /\ history[2].op = "__pl0_read"
  /\ history[2].result = <<42>>
  /\ history[3].op = "__pl0_print_unsigned_short"
  /\ history[3].param = -7
  /\ stdout = <<"6", "5", "5", "2", "9", "6", "5", "5", "2", "9">>
  /\ inpos = 3

----------------------------------------------------------------------------
(* The standard input "42\n"                                               *)

FortyTwo == <<"4", "2", "\n">>

(* C7: with standard input "42\n" the first __pl0_read returns 42 and the  *)
(* second, on the exhausted stream, returns normally with some value.  A   *)
(* read on exhausted or unparseable input always returns to the caller: it *)
(* neither stops the process nor fails to come back.                       *)

C7_ReadAlwaysReturns ==
  /\ \A i \in 1..Len(history) :
       history[i].op = "__pl0_read" =>
         /\ Len(history[i].result) = 1
         /\ history[i].result[1] \in Int
  /\ (input = FortyTwo /\ Len(history) >= 1) => history[1].result = <<42>>
  /\ Calling =>
       ENABLED (__pl0_read /\ pc' = "__pl0_start"
                  /\ Len(history') = Len(history) + 1)

\* both reads of "42\n" are back in the compiled program
C7_Witness ==
  /\ input = FortyTwo
  /\ Len(history) = 2
  /\ history[1].result = <<42>>
  /\ history[2].result[1] \in Indeterminate
  /\ inpos = Len(input) + 1
  /\ pc = "__pl0_start"

----------------------------------------------------------------------------
(* Tokens of standard input                                               *)

Signs == {"+", "-"}

\* the first position at or after p that holds no white space
TokenStart(p) ==
  CHOOSE w \in p..(Len(input) + 1) :
    /\ \A j \in p..(w - 1) : input[j] \in WhiteSpace
    /\ w <= Len(input) => input[w] \notin WhiteSpace

HasDigitAt(p) == p <= Len(input) /\ IsDigit(input[p])
HasSignAt(p) == p <= Len(input) /\ input[p] \in Signs

\* a signed decimal token starts at w
NumberStartsAt(w) == HasDigitAt(w) \/ (HasSignAt(w) /\ HasDigitAt(w + 1))

\* the value of the token input[w..e-1]
TokenValue(w, e) ==
  IF HasSignAt(w)
  THEN NumberOf(SubSeq(input, w + 1, e - 1), IF input[w] = "-" THEN -1 ELSE 1)
  ELSE NumberOf(SubSeq(input, w, e - 1), 1)

\* a read from position p that ends at position e with result v took
\* exactly one token
TookOneToken(p, e, v) ==
  LET w == TokenStart(p)
  IN  /\ e > w
      /\ \A j \in (IF HasSignAt(w) THEN w + 1 ELSE w)..(e - 1) :
           IsDigit(input[j])
      /\ ~HasDigitAt(e)
      /\ v = TokenValue(w, e)

\* no later read can get past position w: no number starts there and what
\* is there is not a sign either
StuckAt(w) == w <= Len(input) /\ ~HasDigitAt(w) /\ ~HasSignAt(w)

(* C10, as claimed: a successful __pl0_read consumes leading white space   *)
(* and exactly the characters of one signed decimal token and leaves the   *)
(* rest; a __pl0_read that fails on a non-numeric token consumes none of   *)
(* its characters, so the position stays in front of the token and every   *)
(* later read fails too.                                                   *)

C10_AsClaimed ==
  [][Len(history') = Len(history) + 1 =>
       LET w == TokenStart(inpos)
       IN  IF NumberStartsAt(w)
           THEN TookOneToken(inpos, inpos', Last(history').result[1])
           ELSE /\ inpos' = w
                /\ w <= Len(input) => ~NumberStartsAt(TokenStart(inpos'))]_vars

(* C10, amended: a successful __pl0_read consumes leading white space and  *)
(* exactly one signed decimal token.  A failing __pl0_read consumes the    *)
(* leading white space and, when the token starts with a sign, that sign,  *)
(* and nothing else.  When the failing token starts with neither a sign    *)
(* nor a digit the position stays in front of it and every later read      *)
(* fails at the same place.                                                *)

C10_FailedReadKeepsToken ==
  [][Len(history') = Len(history) + 1 =>
       LET w == TokenStart(inpos)
       IN  IF NumberStartsAt(w)
           THEN TookOneToken(inpos, inpos', Last(history').result[1])
           ELSE /\ inpos' = (IF HasSignAt(w) THEN w + 1 ELSE w)
                /\ Last(history').result[1] \in Indeterminate
                /\ StuckAt(w) => (inpos' = w /\ TokenStart(inpos') = w)]_vars

\* "- 4": the first read fails and takes the sign, the second returns 4
C10_Witness ==
  /\ input = <<"-", " ", "4">>
  /\ Len(history) = 2
  /\ history[1].result[1] \in Indeterminate
  /\ history[2].result = <<4>>
  /\ inpos = 4

====
